---- MODULE Spec2Model ----
(***************************************************************************)
(* IP cookies (ayourtch/ipcookies): the per-peer cookie cache, the shim's  *)
(* send path with its three-case timer and its receive path, the cookie    *)
(* daemon's handling of the SET-COOKIE and SETCOOKIE-NOT-EXPECTED control  *)
(* messages, and the daemon and the shim instances working on the shared   *)
(* memory at the same time, as described by ipcookies.h.                   *)
(***************************************************************************)
EXTENDS Integers, Sequences, FiniteSets, TLC

VARIABLES
    now,        \* the host clock, in seconds (time_now of ipcookies.h)
    cache,      \* ipcookie_cache: the entries, oldest first
    state,      \* ipcookie_state: the stateless server's secrets
    out,        \* what the last operation put on the wire, in the log and up
                \* to the host stack, and the address of the node it ran on
    proc        \* the daemon and the shim instances that are part-way through
                \* an operation on the shared memory

vars == <<now, cache, state, out, proc>>

----------------------------------------------------------------------------
(* Bounds of the model *)

\* The clock visits the times MaxTime seconds or less after a multiple of
\* 2^8 s (the fallback period).
MaxTime == 7

\* Peers are 1..NumPeers.
NumPeers == 2

\* The cookies peers ask for in SET-COOKIE are 0..MaxPeerCookie; 0 is the
\* all-zero cookie.
MaxPeerCookie == 1

\* Secrets of the stateless server are 1..MaxSecret.
MaxSecret == 3

\* The rotations that begin while one verification runs are counted up to
\* MaxOverlap.
MaxOverlap == 2

\* Shim instances that send at the same time are 1..NumShims.
NumShims == 2

Peers == 1..NumPeers

Shims == 1..NumShims

Secrets == 1..MaxSecret

\* The address of the host itself, which is none of its peers.
HostAddr == NumPeers + 1

\* The steps by which the clock advances: a second, a fallback period, and
\* what is left of one wrap of the stored 24-bit timestamp.
ClockSteps == {1, 2^8, 2^24 - 2^8}

----------------------------------------------------------------------------
(* Constants of ipcookies.h *)

IPCOOKIE_LIFETIME_LOG2_INFINITE == 15

IPCOOKIE_T_RECOVER == 3

IPCOOKIE_FALLBACK_LT2 == 8

IPCOOKIE_TRY_LT2 == 3

ICMP6_IPCK_LT_LOG2_MASK == 15

ICMP6_IC_SET_COOKIE == 1

ICMP6_IC_SETCOOKIE_NOT_EXPECTED == 2

IPCOOKIE_TS_STILL_VALID == 0

IPCOOKIE_TS_RENEW_TIME == 1

IPCOOKIE_TS_PAST_RENEW_TIME == 2

\* The two flags live in the upper four bits of flags_and_lifetime_log2.
IPCOOKIE_ENTRY_FLAG_DISABLE_COOKIES == 128

IPCOOKIE_ENTRY_FLAG_EXPECTING_SETCOOKIE == 64

\* Number of entry slots of ipcookie_cache_t.
IPCOOKIE_CACHE_SIZE == 2

\* The cookie of an entry that has not yet seen a SET-COOKIE.
ZeroCookie == 0

\* The stored timestamp is 16 + 8 bits wide.
MtimeModulus == 2^16 * 2^8

----------------------------------------------------------------------------
(* ipcookie_entry_t and its accessors *)

LtLog2Values == 0..ICMP6_IPCK_LT_LOG2_MASK

\* The lifetimes SET-COOKIE carries where every peer is at work: the
\* shortest one and the infinite one.
SomeLtLog2Values == {0, IPCOOKIE_LIFETIME_LOG2_INFINITE}

\* A zeroed slot taken for peer p.  mtime_ts is the untruncated time of the
\* last write of mtime (the "mtime_ts" of the text); the program keeps only
\* mtime_lo16 and mtime_hi8 and never reads mtime_ts.
ipcookie_entry_t(p) ==
    [peer |-> p,
     mtime_lo16 |-> 0,
     mtime_hi8 |-> 0,
     flags_and_lifetime_log2 |-> 0,
     ipcookie |-> ZeroCookie,
     mtime_ts |-> 0]

flag_isset(ce, flag) == (ce.flags_and_lifetime_log2 \div flag) % 2 = 1

flag_set(ce, flag) ==
    IF flag_isset(ce, flag) THEN ce
    ELSE [ce EXCEPT !.flags_and_lifetime_log2 = @ + flag]

flag_clear(ce, flag) ==
    IF flag_isset(ce, flag)
    THEN [ce EXCEPT !.flags_and_lifetime_log2 = @ - flag]
    ELSE ce

ipcookie_entry_isset_disable_cookies(ce) ==
    flag_isset(ce, IPCOOKIE_ENTRY_FLAG_DISABLE_COOKIES)

ipcookie_entry_set_disable_cookies(ce) ==
    flag_set(ce, IPCOOKIE_ENTRY_FLAG_DISABLE_COOKIES)

ipcookie_entry_clear_disable_cookies(ce) ==
    flag_clear(ce, IPCOOKIE_ENTRY_FLAG_DISABLE_COOKIES)

ipcookie_entry_isset_expecting_setcookie(ce) ==
    flag_isset(ce, IPCOOKIE_ENTRY_FLAG_EXPECTING_SETCOOKIE)

ipcookie_entry_set_expecting_setcookie(ce) ==
    flag_set(ce, IPCOOKIE_ENTRY_FLAG_EXPECTING_SETCOOKIE)

ipcookie_entry_clear_expecting_setcookie(ce) ==
    flag_clear(ce, IPCOOKIE_ENTRY_FLAG_EXPECTING_SETCOOKIE)

ipcookie_entry_lifetime_log2(ce) == ce.flags_and_lifetime_log2 % 16

\* Lower four bits replaced, upper four bits (the flags) kept.
ipcookie_entry_set_lifetime_log2(ce, new_lifetime_log2) ==
    [ce EXCEPT !.flags_and_lifetime_log2 =
        (@ \div 16) * 16 + (new_lifetime_log2 % 16)]

ipcookie_entry_mtime(ce) == ce.mtime_hi8 * 2^16 + ce.mtime_lo16

\* The low 24 bits of t, split 16 + 8.
entry_write_mtime(ce, t) ==
    [ce EXCEPT !.mtime_lo16 = (t + MtimeModulus) % 2^16,
               !.mtime_hi8 = ((t + MtimeModulus) \div 2^16) % 2^8,
               !.mtime_ts = t]

ipcookie_entry_update_mtime(ce, t) == entry_write_mtime(ce, t)

\* Faulty variant of ipcookie_entry_mtime_backdate_by_lifetime_log2: the
\* current time is written, not backdated.
ipcookie_entry_mtime_backdate_by_nothing(ce, t) == entry_write_mtime(ce, t)

\* "the timestamp needs to be set to (time_now-2^lifetime_log)"
ipcookie_entry_mtime_backdate_by_lifetime_log2(ce, t) ==
    entry_write_mtime(ce, t - 2^ipcookie_entry_lifetime_log2(ce))

----------------------------------------------------------------------------
(* The three-case timestamp check *)

\* Seconds since mtime, from the 24 bits that are stored.
entry_age(ce, t) ==
    ((t % MtimeModulus) - ipcookie_entry_mtime(ce) + MtimeModulus) % MtimeModulus

check_ipcookie_entry_timestamp_finite_only(ce, t) ==
    LET lt == ipcookie_entry_lifetime_log2(ce) IN
    IF entry_age(ce, t) < 2^lt THEN IPCOOKIE_TS_STILL_VALID
    ELSE IF entry_age(ce, t) < 2^lt + IPCOOKIE_T_RECOVER THEN IPCOOKIE_TS_RENEW_TIME
    ELSE IPCOOKIE_TS_PAST_RENEW_TIME

check_ipcookie_entry_timestamp(ce, t) ==
    LET lt == ipcookie_entry_lifetime_log2(ce) IN
    IF lt = IPCOOKIE_LIFETIME_LOG2_INFINITE THEN IPCOOKIE_TS_STILL_VALID
    ELSE IF entry_age(ce, t) < 2^lt THEN IPCOOKIE_TS_STILL_VALID
    ELSE IF entry_age(ce, t) < 2^lt + IPCOOKIE_T_RECOVER THEN IPCOOKIE_TS_RENEW_TIME
    ELSE IPCOOKIE_TS_PAST_RENEW_TIME

----------------------------------------------------------------------------
(* ipcookie_cache_t: a bounded FIFO of entries, at most one per peer *)

cache_lookup(c, p) ==
    IF \E i \in 1..Len(c) : c[i].peer = p
    THEN CHOOSE i \in 1..Len(c) : c[i].peer = p
    ELSE 0

cache_has(c, p) == cache_lookup(c, p) # 0

cache_entry(c, p) == c[cache_lookup(c, p)]

\* A new entry takes a free slot, or evicts the oldest entry.
cache_alloc(c, ce) ==
    IF Len(c) < IPCOOKIE_CACHE_SIZE THEN Append(c, ce) ELSE Append(Tail(c), ce)

----------------------------------------------------------------------------
(* Shim, send path *)

\* Faulty variant of send_entry_disabled: the end of the wait-out period
\* clears DISABLE_COOKIES and leaves mtime as it was.
send_entry_disabled_stale_mtime(ce, t) ==
    IF check_ipcookie_entry_timestamp(ce, t) = IPCOOKIE_TS_STILL_VALID THEN ce
    ELSE ipcookie_entry_set_lifetime_log2(
             ipcookie_entry_clear_disable_cookies(ce), IPCOOKIE_TRY_LT2)

\* DISABLE_COOKIES is set: case 0 does nothing, cases 1 and 2 end the
\* fallback wait-out period.
send_entry_disabled(ce, t) ==
    IF check_ipcookie_entry_timestamp(ce, t) = IPCOOKIE_TS_STILL_VALID THEN ce
    ELSE ipcookie_entry_set_lifetime_log2(
             ipcookie_entry_update_mtime(
                 ipcookie_entry_clear_disable_cookies(ce), t),
             IPCOOKIE_TRY_LT2)

\* "set the IPCOOKIE_EXPECTING_SETCOOKIE ... the timestamp needs to be set
\* to (time_now-2^lifetime_log) as well"
send_entry_expect_and_rewind(ce, t) ==
    ipcookie_entry_mtime_backdate_by_lifetime_log2(
        ipcookie_entry_set_expecting_setcookie(ce), t)

\* Faulty variant of send_entry_fallback: the fallback keeps the lifetime of
\* the entry instead of writing IPCOOKIE_FALLBACK_LT2.
send_entry_fallback_keep_lifetime(ce, t) ==
    ipcookie_entry_update_mtime(ipcookie_entry_set_disable_cookies(ce), t)

\* Case 2 with EXPECTING_SETCOOKIE set: fall back to cookie-less sending.
send_entry_fallback(ce, t) ==
    ipcookie_entry_set_lifetime_log2(
        ipcookie_entry_update_mtime(
            ipcookie_entry_set_disable_cookies(ce), t),
        IPCOOKIE_FALLBACK_LT2)

\* DISABLE_COOKIES is cleared.
send_entry_enabled(ce, t) ==
    LET ts == check_ipcookie_entry_timestamp(ce, t) IN
    IF ts = IPCOOKIE_TS_STILL_VALID THEN ce
    ELSE IF ts = IPCOOKIE_TS_RENEW_TIME
    THEN IF ipcookie_entry_isset_expecting_setcookie(ce) THEN ce
         ELSE send_entry_expect_and_rewind(ce, t)
    ELSE IF ipcookie_entry_isset_expecting_setcookie(ce)
         THEN send_entry_fallback(ce, t)
         ELSE send_entry_expect_and_rewind(ce, t)

\* ENTRY EXISTS
send_entry_exists(ce, t) ==
    IF ipcookie_entry_isset_disable_cookies(ce)
    THEN send_entry_disabled(ce, t)
    ELSE send_entry_enabled(ce, t)

\* Faulty variant of send_entry_new: an entry that uses cookies is created
\* with the lifetime an entry that does not use them gets.
send_entry_new_inactive_lifetime(p, t, use_cookies, inactive_lt2) ==
    LET ce == ipcookie_entry_set_lifetime_log2(
                  ipcookie_entry_update_mtime(ipcookie_entry_t(p), t),
                  inactive_lt2)
    IN  IF use_cookies
        THEN ipcookie_entry_set_expecting_setcookie(
                 ipcookie_entry_clear_disable_cookies(ce))
        ELSE ipcookie_entry_clear_expecting_setcookie(
                 ipcookie_entry_set_disable_cookies(ce))

\* ENTRY DOES NOT EXIST: mtime is the current time; the local policy says
\* whether cookies are used with this peer (use_cookies), and which lifetime
\* an entry that does not use them gets (inactive_lt2).
send_entry_new(p, t, use_cookies, inactive_lt2) ==
    LET ce == ipcookie_entry_update_mtime(ipcookie_entry_t(p), t) IN
    IF use_cookies
    THEN ipcookie_entry_set_expecting_setcookie(
             ipcookie_entry_set_lifetime_log2(
                 ipcookie_entry_clear_disable_cookies(ce), 0))
    ELSE ipcookie_entry_clear_expecting_setcookie(
             ipcookie_entry_set_lifetime_log2(
                 ipcookie_entry_set_disable_cookies(ce), inactive_lt2))

\* The cache after the state transition of one send to p.
send_path_cache(c, p, t, use_cookies, inactive_lt2) ==
    LET i == cache_lookup(c, p) IN
    IF i # 0
    THEN [c EXCEPT ![i] = send_entry_exists(c[i], t)]
    ELSE cache_alloc(c, send_entry_new(p, t, use_cookies, inactive_lt2))

\* Faulty variant of send_path_datagram: the cookie of the entry is attached
\* whatever DISABLE_COOKIES says.
send_path_datagram_always_attach(c, p) ==
    IF cache_has(c, p)
    THEN [dst |-> p, has_cookie |-> TRUE, cookie |-> cache_entry(c, p).ipcookie]
    ELSE [dst |-> p, has_cookie |-> FALSE, cookie |-> ZeroCookie]

\* The second lookup: the datagram goes out as is when DISABLE_COOKIES is
\* set, and with the entry's cookie attached when it is cleared.
send_path_datagram(c, p) ==
    IF cache_has(c, p) /\ ~ipcookie_entry_isset_disable_cookies(cache_entry(c, p))
    THEN [dst |-> p, has_cookie |-> TRUE, cookie |-> cache_entry(c, p).ipcookie]
    ELSE [dst |-> p, has_cookie |-> FALSE, cookie |-> ZeroCookie]

\* One send to p at time t: the cache afterwards, and the datagram.
shim_send(c, p, t, use_cookies, inactive_lt2) ==
    LET after == send_path_cache(c, p, t, use_cookies, inactive_lt2) IN
    [cache |-> after, dgram |-> send_path_datagram(after, p)]

----------------------------------------------------------------------------
(* Stateless server: the cookie of a peer under a secret *)

\* A keyed derivation over the peer and the secret; here one-to-one on
\* Peers \X Secrets and never the all-zero cookie.
cookie_of(p, secret) == (secret - 1) * NumPeers + p

\* Every cookie value a message can carry.
Cookies == 0..(NumPeers * MaxSecret)

PeerCookies == 0..MaxPeerCookie

\* The cookies SET-COOKIE asks for where every peer is at work: the all-zero
\* one and one other.
SomePeerCookies == {ZeroCookie, MaxPeerCookie}

\* Faulty variant of ipcookie_verify: the PREVIOUS secret is tried first.
ipcookie_verify_previous_first(st, p, received) ==
    IF received = cookie_of(p, st.previous) THEN "valid_previous"
    ELSE IF received = cookie_of(p, st.current) THEN "valid_current"
    ELSE "invalid"

\* Faulty variant of ipcookie_verify: the PREVIOUS secret is not tried.
ipcookie_verify_current_only(st, p, received) ==
    IF received = cookie_of(p, st.current) THEN "valid_current" ELSE "invalid"

\* Verify against the CURRENT cookie and, if that fails, the PREVIOUS one.
ipcookie_verify(st, p, received) ==
    IF received = cookie_of(p, st.current) THEN "valid_current"
    ELSE IF received = cookie_of(p, st.previous) THEN "valid_previous"
    ELSE "invalid"

\* The verification in its steps: the shim of a datagram from p with cookie
\* received has yet to read the CURRENT secret; began is the CURRENT secret
\* and overlap the number of rotations under way at that moment.
verify_begin(st, p, received, overlap) ==
    [pc |-> "read_current", p |-> p, received |-> received,
     began |-> st.current, overlap |-> overlap, result |-> "none"]

\* Faulty variant of verify_read_current: a mismatch is final.
verify_read_current_only(st, v) ==
    IF v.received = cookie_of(v.p, st.current)
    THEN [v EXCEPT !.pc = "done", !.result = "valid_current"]
    ELSE [v EXCEPT !.pc = "done", !.result = "invalid"]

\* The read of the CURRENT secret and the comparison with its cookie.
verify_read_current(st, v) ==
    IF v.received = cookie_of(v.p, st.current)
    THEN [v EXCEPT !.pc = "done", !.result = "valid_current"]
    ELSE [v EXCEPT !.pc = "read_previous"]

\* The read of the PREVIOUS secret and the comparison with its cookie.
verify_read_previous(st, v) ==
    IF v.received = cookie_of(v.p, st.previous)
    THEN [v EXCEPT !.pc = "done", !.result = "valid_previous"]
    ELSE [v EXCEPT !.pc = "done", !.result = "invalid"]

----------------------------------------------------------------------------
(* Cookie daemon *)

NoOutput == [icmp |-> <<>>, log |-> "none"]

icmp6_ipcookies(code, dst, echoed_cookie, requested_cookie) ==
    [code |-> code, dst |-> dst,
     echoed_cookie |-> echoed_cookie, requested_cookie |-> requested_cookie]

\* Faulty variant of daemon_setcookie_no_entry: the echoed cookie of the
\* SET-COOKIE is sent back instead of the requested one.
daemon_setcookie_no_entry_echo_echoed(p, echoed, requested) ==
    [icmp |-> <<icmp6_ipcookies(ICMP6_IC_SETCOOKIE_NOT_EXPECTED, p,
                                echoed, ZeroCookie)>>,
     log |-> "none"]

\* SET-COOKIE, no entry for the peer: the sender's cookie is copied into a
\* SETCOOKIE-NOT-EXPECTED that goes back to the sender.
daemon_setcookie_no_entry(p, echoed, requested) ==
    [icmp |-> <<icmp6_ipcookies(ICMP6_IC_SETCOOKIE_NOT_EXPECTED, p,
                                requested, ZeroCookie)>>,
     log |-> "none"]

\* Faulty variant of daemon_setcookie_matches: no verification.
daemon_setcookie_matches_anything(ce, echoed) == TRUE

\* The echoed cookie of the message is verified against the entry.
daemon_setcookie_matches(ce, echoed) == echoed = ce.ipcookie

\* Faulty variant of daemon_setcookie_install: the lifetime_log2 goes into the
\* table, the suggested cookie does not.
daemon_setcookie_install_lifetime_only(ce, requested, lt_log2) ==
    ipcookie_entry_set_lifetime_log2(ce, lt_log2 % (ICMP6_IPCK_LT_LOG2_MASK + 1))

\* The suggested cookie and the lifetime_log2 of the packet go into the table.
daemon_setcookie_install(ce, requested, lt_log2) ==
    ipcookie_entry_set_lifetime_log2(
        [ce EXCEPT !.ipcookie = requested],
        lt_log2 % (ICMP6_IPCK_LT_LOG2_MASK + 1))

\* What else a verified SET-COOKIE does to the entry: mtime is the time the
\* SET-COOKIE was seen, and both flags are cleared.
daemon_setcookie_settle(ce, t) ==
    ipcookie_entry_clear_disable_cookies(
        ipcookie_entry_clear_expecting_setcookie(
            ipcookie_entry_update_mtime(ce, t)))

daemon_setcookie_entry(ce, echoed, requested, lt_log2, t) ==
    IF daemon_setcookie_matches(ce, echoed)
    THEN daemon_setcookie_settle(
             daemon_setcookie_install(ce, requested, lt_log2), t)
    ELSE ce

daemon_setcookie_cache(c, p, echoed, requested, lt_log2, t) ==
    LET i == cache_lookup(c, p) IN
    IF i # 0
    THEN [c EXCEPT ![i] = daemon_setcookie_entry(c[i], echoed, requested,
                                                 lt_log2, t)]
    ELSE c

daemon_setcookie_output(c, p, echoed, requested) ==
    IF ~cache_has(c, p) THEN daemon_setcookie_no_entry(p, echoed, requested)
    ELSE IF daemon_setcookie_matches(cache_entry(c, p), echoed) THEN NoOutput
    ELSE [icmp |-> <<>>, log |-> "setcookie_mismatch"]

\* SET-COOKIE(echoed, requested, lt_log2) from p at time t: the cache
\* afterwards, the message sent and the event logged.
daemon_setcookie(c, p, echoed, requested, lt_log2, t) ==
    LET res == daemon_setcookie_output(c, p, echoed, requested) IN
    [cache |-> daemon_setcookie_cache(c, p, echoed, requested, lt_log2, t),
     icmp |-> res.icmp,
     log |-> res.log]

\* The secrets after a rotation: previous <- current, current <- fresh.
daemon_rotate(st, fresh) == [current |-> fresh, previous |-> st.current]

\* Faulty variant of rotate_write_previous: the first write is to CURRENT.
rotate_write_fresh_twice(st, fresh) == [st EXCEPT !.current = fresh]

\* The rotation in its two writes: previous <- current ...
rotate_write_previous(st, fresh) == [st EXCEPT !.previous = st.current]

\* ... then current <- fresh.
rotate_write_current(st, fresh) == [st EXCEPT !.current = fresh]

\* SETCOOKIE-NOT-EXPECTED(echoed) from p: a match is a valid reaction to a
\* SET-COOKIE we sent for a spoofed packet, which is logged; otherwise the
\* notification is ignored.  Nothing is sent and nothing is stored.
daemon_not_expected(st, c, p, echoed) ==
    [state |-> st, cache |-> c, icmp |-> <<>>,
     log |-> IF ipcookie_verify(st, p, echoed) # "invalid"
             THEN "spoofed_source"
             ELSE "notification_ignored"]

----------------------------------------------------------------------------
(* Shim, receive path *)

\* SET-COOKIE carries, besides the two cookies, the lifetime_log2 in the low
\* four bits of icmp6_data8[0].
icmp6_set_cookie(dst, echoed_cookie, requested_cookie, lt_log2) ==
    [code |-> ICMP6_IC_SET_COOKIE, dst |-> dst,
     echoed_cookie |-> echoed_cookie, requested_cookie |-> requested_cookie,
     lt_log2 |-> lt_log2 % (ICMP6_IPCK_LT_LOG2_MASK + 1)]

\* Faulty variant of shim_recv_setcookie: SET-COOKIE is sent only when the
\* cookie verifies against neither secret.
shim_recv_setcookie_invalid_only(st, p, received, halflife_log2) ==
    IF ipcookie_verify(st, p, received) = "invalid"
    THEN <<icmp6_set_cookie(p, received, cookie_of(p, st.current),
                            halflife_log2)>>
    ELSE <<>>

\* "If the verification against CURRENT cookie fails, the shim needs to send
\* the SET-COOKIE message containing the value of the calculated CURRENT
\* cookie, and a copy of the received cookie in the echo-cookie field", with a
\* copy of the halflife_log2 of the host.
shim_recv_setcookie_requests_previous(st, p, received, halflife_log2) ==
    IF ipcookie_verify(st, p, received) # "valid_current"
    THEN <<icmp6_set_cookie(p, received, cookie_of(p, st.previous), halflife_log2)>>
    ELSE <<>>

shim_recv_setcookie(st, p, received, halflife_log2) ==
    IF ipcookie_verify(st, p, received) # "valid_current"
    THEN <<icmp6_set_cookie(p, received, cookie_of(p, st.current),
                            halflife_log2)>>
    ELSE <<>>

\* A datagram whose cookie verifies against CURRENT or PREVIOUS goes up to
\* the host stack; what happens to the others is up to the host
\* (deliver_invalid).
shim_recv_deliver(st, p, received, deliver_invalid) ==
    IF ipcookie_verify(st, p, received) # "invalid" \/ deliver_invalid
    THEN <<[src |-> p, cookie |-> received]>>
    ELSE <<>>

\* One datagram from p carrying the cookie received: no new state is created.
shim_recv(st, c, p, received, halflife_log2, deliver_invalid) ==
    [state |-> st, cache |-> c,
     icmp |-> shim_recv_setcookie(st, p, received, halflife_log2),
     deliver |-> shim_recv_deliver(st, p, received, deliver_invalid)]

----------------------------------------------------------------------------
(* The transitions as the calls they make on the entry in shared memory *)

\* One call of a helper of ipcookies.h on the entry, at time t.
entry_call(ce, call, t) ==
    CASE call.fn = "set_disable_cookies" -> ipcookie_entry_set_disable_cookies(ce)
      [] call.fn = "clear_disable_cookies" -> ipcookie_entry_clear_disable_cookies(ce)
      [] call.fn = "set_expecting_setcookie" -> ipcookie_entry_set_expecting_setcookie(ce)
      [] call.fn = "clear_expecting_setcookie" -> ipcookie_entry_clear_expecting_setcookie(ce)
      [] call.fn = "update_mtime" -> ipcookie_entry_update_mtime(ce, t)
      [] call.fn = "mtime_backdate_by_lifetime_log2" ->
             ipcookie_entry_mtime_backdate_by_lifetime_log2(ce, t)
      [] call.fn = "set_lifetime_log2" -> ipcookie_entry_set_lifetime_log2(ce, call.arg)
      [] call.fn = "set_ipcookie" -> [ce EXCEPT !.ipcookie = call.arg]

RECURSIVE entry_calls(_, _, _)
entry_calls(ce, calls, t) ==
    IF calls = <<>> THEN ce
    ELSE entry_calls(entry_call(ce, Head(calls), t), Tail(calls), t)

call(fn) == [fn |-> fn, arg |-> 0]

call_with(fn, arg) == [fn |-> fn, arg |-> arg]

\* The calls of send_entry_exists on the entry the shim has read.
send_entry_exists_calls(ce, t) ==
    LET ts == check_ipcookie_entry_timestamp(ce, t)
        expect_and_rewind == <<call("set_expecting_setcookie"),
                               call("mtime_backdate_by_lifetime_log2")>>
    IN  IF ts = IPCOOKIE_TS_STILL_VALID THEN <<>>
        ELSE IF ipcookie_entry_isset_disable_cookies(ce)
        THEN <<call("clear_disable_cookies"), call("update_mtime"),
               call_with("set_lifetime_log2", IPCOOKIE_TRY_LT2)>>
        ELSE IF ~ipcookie_entry_isset_expecting_setcookie(ce) THEN expect_and_rewind
        ELSE IF ts = IPCOOKIE_TS_RENEW_TIME THEN <<>>
        ELSE <<call("set_disable_cookies"), call("update_mtime"),
               call_with("set_lifetime_log2", IPCOOKIE_FALLBACK_LT2)>>

\* The calls of daemon_setcookie_entry on the entry the daemon has read.
daemon_setcookie_entry_calls(ce, echoed, requested, lt_log2) ==
    IF daemon_setcookie_matches(ce, echoed)
    THEN <<call_with("set_ipcookie", requested),
           call_with("set_lifetime_log2", lt_log2 % (ICMP6_IPCK_LT_LOG2_MASK + 1)),
           call("update_mtime"),
           call("clear_expecting_setcookie"),
           call("clear_disable_cookies")>>
    ELSE <<>>

----------------------------------------------------------------------------
(* The state machine *)

Init ==
    /\ now = 0
    /\ cache = <<>>
    /\ state = [current |-> 1, previous |-> 1]
    /\ out = [op |-> "init", src |-> HostAddr, icmp |-> <<>>, log |-> "none", dgram |-> <<>>, deliver |-> <<>>]
    /\ proc = [rotation |-> <<>>, verifier |-> <<>>,
               shims |-> [i \in Shims |-> <<>>],
               shim_calls |-> <<>>, daemon_calls |-> <<>>, race |-> <<>>,
               silent |-> FALSE]

\* The clock advances by d seconds.
Tick(d) ==
    /\ (now + d) % 2^8 <= MaxTime
    /\ (now + d) \div 2^8 \in {0, 1, 2^16}
    /\ now' = now + d
    /\ UNCHANGED <<cache, state, out, proc>>

\* The clock advances by d seconds and is read modulo 2^24, which is all an
\* entry keeps of it. silent records that the clock has once advanced twice
\* with no send in between.
TickAround(d) ==
    /\ ((now + d) % MtimeModulus) % 2^8 <= MaxTime
    /\ ((now + d) % MtimeModulus) \div 2^8 \in {0, 1}
    /\ now' = (now + d) % MtimeModulus
    /\ out' = [out EXCEPT !.op = "tick"]
    /\ proc' = [proc EXCEPT !.silent = @ \/ out.op = "tick"]
    /\ UNCHANGED <<cache, state>>

\* The shim sends one datagram to peer p.
ShimSend(p, use_cookies, inactive_lt2) ==
    LET res == shim_send(cache, p, now, use_cookies, inactive_lt2) IN
    /\ cache' = res.cache
    /\ out' = [op |-> "send", src |-> HostAddr, icmp |-> <<>>, log |-> "none",
               dgram |-> <<res.dgram>>, deliver |-> <<>>]
    /\ UNCHANGED <<now, state, proc>>

\* The daemon receives SET-COOKIE(echoed, requested, lt_log2) from p.
DaemonSetCookie(p, echoed, requested, lt_log2) ==
    LET res == daemon_setcookie(cache, p, echoed, requested, lt_log2, now) IN
    /\ cache' = res.cache
    /\ out' = [op |-> "setcookie", src |-> HostAddr, icmp |-> res.icmp, log |-> res.log,
               dgram |-> <<>>, deliver |-> <<>>]
    /\ UNCHANGED <<now, state, proc>>

\* The daemon receives SETCOOKIE-NOT-EXPECTED(echoed) from p.
DaemonNotExpected(p, echoed) ==
    LET res == daemon_not_expected(state, cache, p, echoed) IN
    /\ cache' = res.cache
    /\ state' = res.state
    /\ out' = [op |-> "not_expected", src |-> HostAddr, icmp |-> res.icmp, log |-> res.log,
               dgram |-> <<>>, deliver |-> <<>>]
    /\ UNCHANGED <<now, proc>>

\* The shim receives a datagram from p that carries the cookie received.
ShimRecv(p, received, halflife_log2, deliver_invalid) ==
    LET res == shim_recv(state, cache, p, received, halflife_log2,
                         deliver_invalid) IN
    /\ cache' = res.cache
    /\ state' = res.state
    /\ out' = [op |-> "recv", src |-> HostAddr, icmp |-> res.icmp, log |-> "none",
               dgram |-> <<>>, deliver |-> res.deliver]
    /\ UNCHANGED <<now, proc>>

\* The daemon rotates the secrets: previous <- current, current <- fresh.
DaemonRotate(fresh) ==
    /\ fresh # state.current
    /\ state' = daemon_rotate(state, fresh)
    /\ UNCHANGED <<now, cache, out, proc>>

\* Shim instance i looks up the entry of the peer p of its datagram.
ShimLookup(i, p, use_cookies) ==
    /\ proc.shims[i] = <<>>
    /\ proc' = [proc EXCEPT !.shims[i] =
                   <<[pc |-> IF cache_has(cache, p) THEN "exists" ELSE "new",
                      p |-> p, use_cookies |-> use_cookies]>>]
    /\ UNCHANGED <<now, cache, state, out>>

\* Shim instance i found the entry: the transition on it, and the datagram.
\* (Nothing is done to an entry that has been evicted since the lookup.)
ShimEntryExists(i) ==
    /\ proc.shims[i] # <<>>
    /\ proc.shims[i][1].pc = "exists"
    /\ LET p == proc.shims[i][1].p
           after == IF cache_has(cache, p)
                    THEN send_path_cache(cache, p, now, proc.shims[i][1].use_cookies,
                                         IPCOOKIE_LIFETIME_LOG2_INFINITE)
                    ELSE cache
       IN  /\ cache' = after
           /\ out' = [op |-> "send", src |-> HostAddr, icmp |-> <<>>, log |-> "none",
                      dgram |-> <<send_path_datagram(after, p)>>, deliver |-> <<>>]
    /\ proc' = [proc EXCEPT !.shims[i] = <<>>]
    /\ UNCHANGED <<now, state>>

\* Shim instance i found no entry: it allocates one, holding the lock of the
\* cache for the allocation, and sends the datagram.
ShimEntryNew(i) ==
    /\ proc.shims[i] # <<>>
    /\ proc.shims[i][1].pc = "new"
    /\ LET p == proc.shims[i][1].p
           after == cache_alloc(cache,
                                send_entry_new(p, now, proc.shims[i][1].use_cookies,
                                               IPCOOKIE_LIFETIME_LOG2_INFINITE))
       IN  /\ cache' = after
           /\ out' = [op |-> "send", src |-> HostAddr, icmp |-> <<>>, log |-> "none",
                      dgram |-> <<send_path_datagram(after, p)>>, deliver |-> <<>>]
    /\ proc' = [proc EXCEPT !.shims[i] = <<>>]
    /\ UNCHANGED <<now, state>>

\* A send and a SET-COOKIE that meet on the entry of peer 1: the entry when
\* the first of the two read it, whether the shim has read it, and the
\* message of the daemon once it has.
race_begin(ce) == [entry |-> ce, shim |-> FALSE, daemon |-> <<>>]

RaceOver ==
    /\ proc.race # <<>>
    /\ proc.race[1].shim
    /\ proc.race[1].daemon # <<>>
    /\ proc.shim_calls = <<>>
    /\ proc.daemon_calls = <<>>

\* The shim reads the entry of peer 1 and decides on its transition.
ShimTransitionBegin ==
    /\ cache_has(cache, 1)
    /\ proc.shim_calls = <<>>
    /\ IF proc.race = <<>> THEN TRUE ELSE ~proc.race[1].shim
    /\ LET ce == cache_entry(cache, 1)
           race == IF proc.race = <<>> THEN race_begin(ce) ELSE proc.race[1]
       IN  proc' = [proc EXCEPT
                      !.shim_calls = send_entry_exists_calls(ce, now),
                      !.race = <<[race EXCEPT !.shim = TRUE]>>]
    /\ UNCHANGED <<now, cache, state, out>>

\* The shim makes the next call of its transition.
ShimTransitionStep ==
    /\ proc.shim_calls # <<>>
    /\ cache' = [cache EXCEPT ![cache_lookup(cache, 1)] =
                     entry_call(@, Head(proc.shim_calls), now)]
    /\ proc' = [proc EXCEPT !.shim_calls = Tail(@)]
    /\ UNCHANGED <<now, state, out>>

\* The daemon reads the entry of peer 1 for a SET-COOKIE that echoes its
\* cookie.
DaemonInstallBegin(requested, lt_log2) ==
    /\ cache_has(cache, 1)
    /\ proc.daemon_calls = <<>>
    /\ IF proc.race = <<>> THEN TRUE ELSE proc.race[1].daemon = <<>>
    /\ LET ce == cache_entry(cache, 1)
           race == IF proc.race = <<>> THEN race_begin(ce) ELSE proc.race[1]
       IN  proc' = [proc EXCEPT
                      !.daemon_calls =
                          daemon_setcookie_entry_calls(ce, ce.ipcookie, requested,
                                                       lt_log2),
                      !.race = <<[race EXCEPT !.daemon =
                                    <<[echoed_cookie |-> ce.ipcookie,
                                       requested_cookie |-> requested,
                                       lt_log2 |-> lt_log2]>>]>>]
    /\ UNCHANGED <<now, cache, state, out>>

\* The daemon makes the next call of its installation.
DaemonInstallStep ==
    /\ proc.daemon_calls # <<>>
    /\ cache' = [cache EXCEPT ![cache_lookup(cache, 1)] =
                     entry_call(@, Head(proc.daemon_calls), now)]
    /\ proc' = [proc EXCEPT !.daemon_calls = Tail(@)]
    /\ UNCHANGED <<now, state, out>>

\* Both are done with the entry.
RaceEnd ==
    /\ RaceOver
    /\ proc' = [proc EXCEPT !.race = <<>>]
    /\ UNCHANGED <<now, cache, state, out>>

\* The daemon begins a rotation: the first write. A verification that is
\* running overlaps one rotation more.
RotateWritePrevious(fresh) ==
    /\ proc.rotation = <<>>
    /\ fresh # state.current
    /\ state' = rotate_write_previous(state, fresh)
    /\ proc' = [proc EXCEPT
                   !.rotation = <<fresh>>,
                   !.verifier =
                       IF proc.verifier # <<>> /\ proc.verifier[1].pc # "done"
                       THEN <<[proc.verifier[1] EXCEPT
                                 !.overlap = IF @ < MaxOverlap THEN @ + 1 ELSE @]>>
                       ELSE @]
    /\ UNCHANGED <<now, cache, out>>

\* The daemon ends the rotation: the second write.
RotateWriteCurrent ==
    /\ proc.rotation # <<>>
    /\ state' = rotate_write_current(state, proc.rotation[1])
    /\ proc' = [proc EXCEPT !.rotation = <<>>]
    /\ UNCHANGED <<now, cache, out>>

\* A shim starts the verification of the cookie of a datagram from p.
VerifyBegin(p, received) ==
    /\ proc.verifier = <<>>
    /\ proc' = [proc EXCEPT !.verifier =
                   <<verify_begin(state, p, received,
                                  IF proc.rotation # <<>> THEN 1 ELSE 0)>>]
    /\ UNCHANGED <<now, cache, state, out>>

VerifyReadCurrent ==
    /\ proc.verifier # <<>>
    /\ proc.verifier[1].pc = "read_current"
    /\ proc' = [proc EXCEPT !.verifier = <<verify_read_current(state, @[1])>>]
    /\ UNCHANGED <<now, cache, state, out>>

VerifyReadPrevious ==
    /\ proc.verifier # <<>>
    /\ proc.verifier[1].pc = "read_previous"
    /\ proc' = [proc EXCEPT !.verifier = <<verify_read_previous(state, @[1])>>]
    /\ UNCHANGED <<now, cache, state, out>>

\* The verification returns its result.
VerifyReturn ==
    /\ proc.verifier # <<>>
    /\ proc.verifier[1].pc = "done"
    /\ proc' = [proc EXCEPT !.verifier = <<>>]
    /\ UNCHANGED <<now, cache, state, out>>

\* The caches a peer p can have when a message of the host reaches it: empty,
\* or holding an entry for another of its peers or for the host.
PeerCaches(p) ==
    {<<>>} \cup {<<send_entry_new(q, now, use_cookies,
                                  IPCOOKIE_LIFETIME_LOG2_INFINITE)>> :
                     q \in (Peers \cup {HostAddr}) \ {p}, use_cookies \in BOOLEAN}

\* The daemon of the peer the SET-COOKIE on the wire is for handles it, with
\* any of the caches it can have.
PeerDaemonSetCookie ==
    /\ out.src = HostAddr
    /\ out.icmp # <<>>
    /\ out.icmp[1].code = ICMP6_IC_SET_COOKIE
    /\ \E pc \in PeerCaches(out.icmp[1].dst) :
          LET m == out.icmp[1]
              res == daemon_setcookie(pc, HostAddr, m.echoed_cookie,
                                      m.requested_cookie, m.lt_log2, now)
          IN  out' = [op |-> "peer_setcookie", src |-> m.dst, icmp |-> res.icmp,
                      log |-> res.log, dgram |-> <<>>, deliver |-> <<>>]
    /\ UNCHANGED <<now, cache, state, proc>>

\* The daemon of the host handles the SETCOOKIE-NOT-EXPECTED a peer has put on
\* the wire for it.
DaemonNotExpectedFromPeer ==
    /\ out.src # HostAddr
    /\ out.icmp # <<>>
    /\ out.icmp[1].code = ICMP6_IC_SETCOOKIE_NOT_EXPECTED
    /\ out.icmp[1].dst = HostAddr
    /\ DaemonNotExpected(out.src, out.icmp[1].echoed_cookie)

\* The lifetimes the local policy gives to an entry that does not use cookies.
InactiveLt2Values == {IPCOOKIE_LIFETIME_LOG2_INFINITE, IPCOOKIE_FALLBACK_LT2}

\* The cookie a peer that sees the datagrams echoes: the one the last
\* datagram to it carried (the all-zero cookie when there is no entry).
EchoedByPeer(p) ==
    IF cache_has(cache, p) THEN cache_entry(cache, p).ipcookie ELSE ZeroCookie

\* One peer that sees the datagrams, the whole clock, every lifetime_log2 a
\* SET-COOKIE can carry.
NextTimer ==
    \/ \E d \in ClockSteps : Tick(d)
    \/ \E use_cookies \in BOOLEAN, lt \in InactiveLt2Values :
           ShimSend(1, use_cookies, lt)
    \/ \E requested \in PeerCookies \ {ZeroCookie}, lt \in LtLog2Values :
           DaemonSetCookie(1, EchoedByPeer(1), requested, lt)

SpecTimer == Init /\ [][NextTimer]_vars

\* Every peer, the send path and SET-COOKIE; the clock at 0, 2^8 and 2^24.
Next ==
    \/ \E d \in ClockSteps \ {1} : Tick(d)
    \/ \E p \in Peers, use_cookies \in BOOLEAN :
           ShimSend(p, use_cookies, IPCOOKIE_LIFETIME_LOG2_INFINITE)
    \/ \E p \in Peers, echoed \in PeerCookies, requested \in SomePeerCookies,
          lt \in SomeLtLog2Values :
           DaemonSetCookie(p, echoed, requested, lt)

Spec == Init /\ [][Next]_vars

\* The cookies a message with source p carries: none (all-zero), the cookie of
\* p under any secret, or the cookie of another peer under the CURRENT secret.
SomeCookies(p) ==
    {ZeroCookie} \cup {cookie_of(p, secret) : secret \in Secrets}
        \cup {cookie_of((p % NumPeers) + 1, state.current)}

\* Every peer, the stateless server's secrets, the receive path and
\* SETCOOKIE-NOT-EXPECTED; the clock stands still.
NextVerifier ==
    \/ \E p \in Peers : ShimSend(p, TRUE, IPCOOKIE_LIFETIME_LOG2_INFINITE)
    \/ \E p \in Peers : \E echoed \in SomeCookies(p) : DaemonNotExpected(p, echoed)
    \/ \E p \in Peers, deliver_invalid \in BOOLEAN : \E received \in SomeCookies(p) :
           ShimRecv(p, received, IPCOOKIE_LIFETIME_LOG2_INFINITE, deliver_invalid)
    \/ \E fresh \in Secrets : DaemonRotate(fresh)

SpecVerifier == Init /\ [][NextVerifier]_vars

\* Several shim instances sending at the same time, each with its lookup and
\* then its transition or its allocation, and the daemon handling SET-COOKIE.
NextShims ==
    \/ \E i \in Shims, p \in Peers, use_cookies \in BOOLEAN :
           ShimLookup(i, p, use_cookies)
    \/ \E i \in Shims : ShimEntryExists(i)
    \/ \E i \in Shims : ShimEntryNew(i)
    \/ \E p \in Peers, requested \in SomePeerCookies, lt \in SomeLtLog2Values :
           DaemonSetCookie(p, EchoedByPeer(p), requested, lt)

SpecShims == Init /\ [][NextShims]_vars

\* One peer, the whole clock; sends that create the entry and bring it to
\* every case of the timer, and then a send and a matching SET-COOKIE that
\* work on the entry at the same time, call by call.
NextEntryRace ==
    \/ \E d \in ClockSteps : proc.race = <<>> /\ Tick(d)
    \/ \E use_cookies \in BOOLEAN :
           proc.race = <<>> /\ ShimSend(1, use_cookies, IPCOOKIE_FALLBACK_LT2)
    \/ ShimTransitionBegin
    \/ ShimTransitionStep
    \/ \E requested \in PeerCookies \ {ZeroCookie}, lt \in SomeLtLog2Values :
           DaemonInstallBegin(requested, lt)
    \/ DaemonInstallStep
    \/ RaceEnd

SpecEntryRace == Init /\ [][NextEntryRace]_vars

\* One peer that never answers, and a shim that uses cookies and keeps
\* sending while the clock goes round.
NextLive ==
    \/ \E d \in ClockSteps : TickAround(d)
    \/ ShimSend(1, TRUE, IPCOOKIE_LIFETIME_LOG2_INFINITE)

SpecLive ==
    /\ Init
    /\ [][NextLive]_vars
    /\ WF_vars(\E d \in ClockSteps : TickAround(d))
    /\ WF_vars(ShimSend(1, TRUE, IPCOOKIE_LIFETIME_LOG2_INFINITE))

\* The daemon rotating the secrets in two writes while a shim verifies a
\* cookie in two reads.
NextRotation ==
    \/ \E fresh \in Secrets : RotateWritePrevious(fresh)
    \/ RotateWriteCurrent
    \/ \E p \in Peers, received \in Cookies : VerifyBegin(p, received)
    \/ VerifyReadCurrent
    \/ VerifyReadPrevious
    \/ VerifyReturn

SpecRotation == Init /\ [][NextRotation]_vars

\* The host and its peers: datagrams come in, the SET-COOKIE the host sends
\* reaches the peer and the answer of the peer reaches the host, with sends
\* and rotations of the secrets in between; the clock stands still.
NextEndToEnd ==
    \/ \E p \in Peers : ShimSend(p, TRUE, IPCOOKIE_LIFETIME_LOG2_INFINITE)
    \/ \E p \in Peers : \E received \in SomeCookies(p) :
           ShimRecv(p, received, IPCOOKIE_LIFETIME_LOG2_INFINITE, FALSE)
    \/ PeerDaemonSetCookie
    \/ DaemonNotExpectedFromPeer
    \/ \E fresh \in Secrets : DaemonRotate(fresh)

SpecEndToEnd == Init /\ [][NextEndToEnd]_vars

----------------------------------------------------------------------------
(* Vocabulary of the properties *)

Entries(c) == {c[i] : i \in 1..Len(c)}

Disabled(ce) == ipcookie_entry_isset_disable_cookies(ce)

Expecting(ce) == ipcookie_entry_isset_expecting_setcookie(ce)

Lifetime(ce) == ipcookie_entry_lifetime_log2(ce)

\* Every entry other than p's is the same in c and d.
OthersUnchanged(c, d, p) ==
    /\ Len(d) = Len(c)
    /\ \A i \in 1..Len(c) :
           IF c[i].peer = p THEN d[i].peer = p ELSE d[i] = c[i]

\* What the policy of the host can ask of one send.
SendPolicies == BOOLEAN \X InactiveLt2Values

----------------------------------------------------------------------------
(* C1 *)

----------------------------------------------------------------------------
(* C2 *)

----------------------------------------------------------------------------
(* C3 *)

\* C3: a SET-COOKIE from a peer that has a cache entry, whose echoed_cookie
\* differs from the cookie of that entry, is dropped: no entry of the cache
\* changes (and nothing is sent back).
C3_MismatchedSetCookieDropped ==
    \A ce \in Entries(cache) :
        \A echoed \in PeerCookies \ {ce.ipcookie}, requested \in PeerCookies,
           lt \in SomeLtLog2Values :
            LET res == daemon_setcookie(cache, ce.peer, echoed, requested, lt, now)
            IN  res.cache = cache /\ res.icmp = <<>>

\* A mismatched SET-COOKIE has just been handled with a full cache.
C3_Witness ==
    /\ out.op = "setcookie" /\ out.log = "setcookie_mismatch"
    /\ Len(cache) = IPCOOKIE_CACHE_SIZE

----------------------------------------------------------------------------
(* C4 *)

\* C4: a SET-COOKIE (echoed, requested, lt) from a peer whose entry holds the
\* cookie echoed, handled at time t, leaves that entry with cookie requested,
\* lifetime_log2 lt, mtime the low 24 bits of t and both flags clear, and
\* leaves every other entry unchanged.
C4_MatchingSetCookieInstalled ==
    \A ce \in Entries(cache), requested \in PeerCookies, lt \in LtLog2Values :
        LET res == daemon_setcookie(cache, ce.peer, ce.ipcookie, requested, lt, now)
            after == cache_entry(res.cache, ce.peer)
        IN  /\ cache_has(res.cache, ce.peer)
            /\ after.ipcookie = requested
            /\ Lifetime(after) = lt
            /\ ipcookie_entry_mtime(after) = now % MtimeModulus
            /\ ~Disabled(after) /\ ~Expecting(after)
            /\ OthersUnchanged(cache, res.cache, ce.peer)

\* A matching SET-COOKIE has just replaced the cookie of an entry, at a time
\* that does not fit 24 bits, while the other peer has an entry too.
C4_Witness ==
    /\ out.op = "setcookie" /\ out.log = "none" /\ out.icmp = <<>>
    /\ Len(cache) = IPCOOKIE_CACHE_SIZE
    /\ now >= MtimeModulus
    /\ \E ce \in Entries(cache) :
           /\ ce.mtime_ts = now
           /\ ce.ipcookie # ZeroCookie
           /\ ~Disabled(ce) /\ ~Expecting(ce)

----------------------------------------------------------------------------
(* C5 *)

\* C5, as claimed: a SET-COOKIE built from public values only (its
\* echoed_cookie is the all-zero cookie) never changes the cookie stored in
\* any entry, a freshly created entry that expects a SET-COOKIE included.
C5_OffPathSetCookieChangesNoCookie ==
    \A ce \in Entries(cache), requested \in PeerCookies, lt \in LtLog2Values :
        LET res == daemon_setcookie(cache, ce.peer, ZeroCookie, requested, lt, now)
        IN  \A after \in Entries(res.cache) :
                after.peer = ce.peer => after.ipcookie = ce.ipcookie

----------------------------------------------------------------------------
(* C6 *)

\* C6: a SET-COOKIE from a peer that has no cache entry is answered with
\* exactly one SETCOOKIE-NOT-EXPECTED to that peer, whose echoed_cookie is the
\* requested_cookie received, and the cache is unchanged.
C6_UnexpectedSetCookieAnswered ==
    \A p \in Peers, echoed \in PeerCookies, requested \in PeerCookies,
       lt \in SomeLtLog2Values :
        ~cache_has(cache, p) =>
            LET res == daemon_setcookie(cache, p, echoed, requested, lt, now)
            IN  /\ res.cache = cache
                /\ Len(res.icmp) = 1
                /\ res.icmp[1].code = ICMP6_IC_SETCOOKIE_NOT_EXPECTED
                /\ res.icmp[1].dst = p
                /\ res.icmp[1].echoed_cookie = requested

\* A SETCOOKIE-NOT-EXPECTED has just been sent although the cache holds an
\* entry of another peer, and its two cookie fields differ.
C6_Witness ==
    /\ out.op = "setcookie" /\ Len(out.icmp) = 1
    /\ out.icmp[1].code = ICMP6_IC_SETCOOKIE_NOT_EXPECTED
    /\ out.icmp[1].echoed_cookie # ZeroCookie
    /\ ~cache_has(cache, out.icmp[1].dst)
    /\ cache # <<>>

----------------------------------------------------------------------------
(* C7 *)

\* C7: on a SETCOOKIE-NOT-EXPECTED from P echoing cookie c, the daemon logs a
\* confirmed source spoof exactly when c is the cookie of P under the CURRENT
\* or the PREVIOUS secret; it sends nothing and changes neither the cache nor
\* the secrets.
C7_NotExpectedLoggedIffVerified ==
    \A p \in Peers, echoed \in Cookies :
        LET res == daemon_not_expected(state, cache, p, echoed)
        IN  /\ res.log = "spoofed_source" <=>
                   (echoed = cookie_of(p, state.current)
                       \/ echoed = cookie_of(p, state.previous))
            /\ res.icmp = <<>>
            /\ res.cache = cache
            /\ res.state = state

\* A notification accepted against the PREVIOUS secret only has just been
\* logged, with an entry in the cache.
C7_Witness ==
    /\ out.op = "not_expected" /\ out.log = "spoofed_source"
    /\ state.current # state.previous
    /\ cache # <<>>

----------------------------------------------------------------------------
(* C8 *)

\* C8: when a send at time t finds DISABLE_COOKIES and EXPECTING_SETCOOKIE
\* clear in Case 1 or Case 2, it sets EXPECTING_SETCOOKIE and backdates mtime
\* so that mtime + 2^lifetime_log2 + T_RECOVER >= t + T_RECOVER; every send
\* at t' with t <= t' < t + T_RECOVER is then classified Case 1 and leaves
\* the entry as it is, with DISABLE_COOKIES clear.
C8_NoFallbackWithinRecoverOfExpecting ==
    \A ce \in Entries(cache) :
        (/\ ~Disabled(ce) /\ ~Expecting(ce)
         /\ check_ipcookie_entry_timestamp(ce, now) # IPCOOKIE_TS_STILL_VALID) =>
            LET after == cache_entry(
                    shim_send(cache, ce.peer, now, TRUE,
                              IPCOOKIE_LIFETIME_LOG2_INFINITE).cache, ce.peer)
            IN  /\ Expecting(after) /\ ~Disabled(after)
                /\ after.mtime_ts + 2^Lifetime(after) + IPCOOKIE_T_RECOVER
                       >= now + IPCOOKIE_T_RECOVER
                /\ \A d \in 0..(IPCOOKIE_T_RECOVER - 1) :
                       /\ check_ipcookie_entry_timestamp(after, now + d)
                              = IPCOOKIE_TS_RENEW_TIME
                       /\ send_entry_exists(after, now + d) = after

\* A send has just set EXPECTING_SETCOOKIE on a settled entry and backdated
\* its mtime by a lifetime of more than one second.
C8_Witness ==
    /\ out.op = "send"
    /\ \E ce \in Entries(cache) :
           /\ Expecting(ce) /\ ~Disabled(ce)
           /\ Lifetime(ce) > 0
           /\ ce.mtime_ts + 2^Lifetime(ce) = now

----------------------------------------------------------------------------
(* C9 *)

\* C9: the datagram of every send carries a cookie option if and only if
\* DISABLE_COOKIES of the peer's entry is clear after the transition of that
\* send, and the cookie carried is the one stored in the entry; the send that
\* creates the entry and the sends that enter or leave fallback included.
C9_CookieAttachedIffNotDisabled ==
    \A p \in Peers, pol \in SendPolicies :
        LET res == shim_send(cache, p, now, pol[1], pol[2])
            after == cache_entry(res.cache, p)
        IN  /\ cache_has(res.cache, p)
            /\ res.dgram.dst = p
            /\ res.dgram.has_cookie <=> ~Disabled(after)
            /\ res.dgram.has_cookie => res.dgram.cookie = after.ipcookie

\* A send has just left fallback: its datagram carries the cookie a
\* SET-COOKIE installed earlier.
C9_Witness ==
    /\ out.op = "send"
    /\ out.dgram # <<>>
    /\ out.dgram[1].has_cookie
    /\ out.dgram[1].cookie # ZeroCookie
    /\ \E ce \in Entries(cache) :
           /\ ce.peer = out.dgram[1].dst
           /\ ~Disabled(ce)
           /\ Lifetime(ce) = IPCOOKIE_TRY_LT2
           /\ ce.mtime_ts = now

----------------------------------------------------------------------------
(* C10 *)

\* An entry the Case 2 step has put in fallback.
InFallback(ce) ==
    Disabled(ce) /\ Expecting(ce) /\ Lifetime(ce) = IPCOOKIE_FALLBACK_LT2

\* C10, as claimed: after a send at time t has put an entry in fallback, a
\* send at t' with t <= t' < t + 2^FALLBACK_LT2 leaves the entry unchanged
\* and carries no cookie, and a send at t' >= t + 2^FALLBACK_LT2 clears
\* DISABLE_COOKIES.
C10_FallbackHoldsThenClears ==
    \A ce \in Entries(cache) :
        InFallback(ce) =>
            LET res == shim_send(cache, ce.peer, now, TRUE,
                                 IPCOOKIE_LIFETIME_LOG2_INFINITE)
                after == cache_entry(res.cache, ce.peer)
            IN  IF now - ce.mtime_ts < 2^IPCOOKIE_FALLBACK_LT2
                THEN after = ce /\ ~res.dgram.has_cookie
                ELSE ~Disabled(after)

----------------------------------------------------------------------------
(* C11 *)

\* C11, as claimed: a send to a peer whose entry has DISABLE_COOKIES set and
\* whose timer has expired (Case 1 or Case 2) leaves the entry with
\* DISABLE_COOKIES clear and EXPECTING_SETCOOKIE set, mtime the current time
\* and lifetime_log2 IPCOOKIE_TRY_LT2.
C11_ExpiredFallbackBecomesExpecting ==
    \A ce \in Entries(cache) :
        (/\ Disabled(ce)
         /\ check_ipcookie_entry_timestamp(ce, now) # IPCOOKIE_TS_STILL_VALID) =>
            LET after == cache_entry(
                    shim_send(cache, ce.peer, now, TRUE,
                              IPCOOKIE_LIFETIME_LOG2_INFINITE).cache, ce.peer)
            IN  /\ ~Disabled(after) /\ Expecting(after)
                /\ after.mtime_ts = now
                /\ Lifetime(after) = IPCOOKIE_TRY_LT2

\* C11, amended: such a send clears DISABLE_COOKIES, sets mtime to the
\* current time and lifetime_log2 to IPCOOKIE_TRY_LT2, and leaves
\* EXPECTING_SETCOOKIE as it was: set for an entry the Case 2 step put in
\* fallback, clear for an entry created with cookies inactive and a lifetime
\* other than 0xF.
C11_ExpiredFallbackKeepsExpecting ==
    \A ce \in Entries(cache), pol \in SendPolicies :
        (/\ Disabled(ce)
         /\ check_ipcookie_entry_timestamp(ce, now) # IPCOOKIE_TS_STILL_VALID) =>
            LET res == shim_send(cache, ce.peer, now, pol[1], pol[2])
                after == cache_entry(res.cache, ce.peer)
            IN  /\ ~Disabled(after)
                /\ Expecting(after) <=> Expecting(ce)
                /\ after.mtime_ts = now
                /\ ipcookie_entry_mtime(after) = now % MtimeModulus
                /\ Lifetime(after) = IPCOOKIE_TRY_LT2
                /\ after.ipcookie = ce.ipcookie
                /\ Len(res.cache) = Len(cache)

\* A send has just ended the wait-out period of an entry that was created
\* with cookies inactive: both flags are clear.
C11_Witness ==
    /\ out.op = "send"
    /\ \E ce \in Entries(cache) :
           /\ ~Disabled(ce) /\ ~Expecting(ce)
           /\ Lifetime(ce) = IPCOOKIE_TRY_LT2
           /\ ce.mtime_ts = now
           /\ ce.ipcookie = ZeroCookie

----------------------------------------------------------------------------
(* C12 *)

----------------------------------------------------------------------------
(* C16 *)

\* C16: for a datagram from P carrying the cookie c, the shim sends
\* SET-COOKIE(echoed = c, requested = the cookie of P under CURRENT) to P
\* exactly when c is not the cookie of P under CURRENT, also when c is the
\* cookie of P under PREVIOUS; the datagram goes up to the host stack when c
\* verifies against CURRENT or PREVIOUS; the cache and the secrets are as
\* they were.
C16_ReceivePathSetCookieOnCurrentMismatch ==
    \A p \in Peers, received \in Cookies, halflife_log2 \in SomeLtLog2Values,
       deliver_invalid \in BOOLEAN :
        LET res == shim_recv(state, cache, p, received, halflife_log2,
                             deliver_invalid)
        IN  /\ res.icmp # <<>> <=> received # cookie_of(p, state.current)
            /\ res.icmp # <<>> =>
                   /\ Len(res.icmp) = 1
                   /\ res.icmp[1].code = ICMP6_IC_SET_COOKIE
                   /\ res.icmp[1].dst = p
                   /\ res.icmp[1].echoed_cookie = received
                   /\ res.icmp[1].requested_cookie = cookie_of(p, state.current)
            /\ (received = cookie_of(p, state.current)
                    \/ received = cookie_of(p, state.previous)) =>
                   res.deliver = <<[src |-> p, cookie |-> received]>>
            /\ res.cache = cache
            /\ res.state = state

\* A datagram whose cookie is valid against PREVIOUS only has just gone up to
\* the host stack, and a SET-COOKIE went back to its source.
C16_Witness ==
    /\ out.op = "recv"
    /\ out.icmp # <<>> /\ out.deliver # <<>>
    /\ out.icmp[1].code = ICMP6_IC_SET_COOKIE
    /\ out.icmp[1].echoed_cookie = cookie_of(out.icmp[1].dst, state.previous)
    /\ out.icmp[1].requested_cookie = cookie_of(out.icmp[1].dst, state.current)
    /\ cache # <<>>

\* The SETCOOKIE-NOT-EXPECTED of a peer is on the wire for the host.
NotExpectedOnWire ==
    /\ out.op = "peer_setcookie"
    /\ out.icmp # <<>>
    /\ out.icmp[1].code = ICMP6_IC_SETCOOKIE_NOT_EXPECTED

\* C13 as stated: whenever the answer of the peer to the SET-COOKIE of the
\* host arrives, the daemon of the host verifies the cookie it echoes as
\* valid and logs a confirmed spoof. Refuted: the host may have rotated its
\* secrets twice while the exchange was under way.
C13_SpoofAnswerAlwaysConfirmed ==
    NotExpectedOnWire =>
        daemon_not_expected(state, cache, out.src,
                            out.icmp[1].echoed_cookie).log = "spoofed_source"

\* C13, amended: a datagram with source p whose cookie fails the verification
\* against CURRENT makes the host send SET-COOKIE; p, with no entry for the
\* host, answers SETCOOKIE-NOT-EXPECTED echoing cookie_of(p, current) of the
\* host; the daemon of the host, after at most one rotation of its secrets
\* since, verifies it as valid and logs a confirmed spoof; neither cache nor
\* the secrets are changed by any of the three handlers.
C13_SpoofAnswerConfirmedWithinOneRotation ==
    /\ \A p \in Peers, received \in Cookies, lt \in SomeLtLog2Values :
          received # cookie_of(p, state.current) =>
              LET r1 == shim_recv(state, cache, p, received, lt, FALSE) IN
              /\ Len(r1.icmp) = 1 /\ r1.cache = cache /\ r1.state = state
              /\ \A m \in {r1.icmp[1]}, pc \in PeerCaches(p) :
                    ~cache_has(pc, HostAddr) =>
                        LET r2 == daemon_setcookie(pc, HostAddr, m.echoed_cookie,
                                                   m.requested_cookie, m.lt_log2,
                                                   now)
                        IN  /\ m.dst = p
                            /\ Len(r2.icmp) = 1 /\ r2.cache = pc
                            /\ r2.icmp[1].code = ICMP6_IC_SETCOOKIE_NOT_EXPECTED
                            /\ r2.icmp[1].dst = HostAddr
                            /\ r2.icmp[1].echoed_cookie = cookie_of(p, state.current)
    /\ \A p \in Peers :
          \A st2 \in {state} \cup {daemon_rotate(state, fresh) :
                                      fresh \in Secrets \ {state.current}} :
              \A r3 \in {daemon_not_expected(st2, cache, p,
                                             cookie_of(p, state.current))} :
                  /\ r3.log = "spoofed_source"
                  /\ r3.icmp = <<>>
                  /\ r3.cache = cache
                  /\ r3.state = st2

\* The daemon of the host has logged a confirmed spoof for the answer of a
\* peer, after a rotation of its secrets, with entries in its cache.
C13_Witness ==
    /\ out.op = "not_expected"
    /\ out.log = "spoofed_source"
    /\ state.current # state.previous
    /\ cache # <<>>

----------------------------------------------------------------------------
(* C15 *)

\* The times of a later send: now, and now plus a second, plus 2^15 seconds
\* with and without the recovery period and more, plus a whole turn of the
\* 24-bit clock less a second, exactly, and more.
LaterSendTimes ==
    {now + d : d \in {0, 1, 2^15 - 1, 2^15, 2^15 + IPCOOKIE_T_RECOVER,
                      2^16, MtimeModulus - 1, MtimeModulus,
                      MtimeModulus + 2^15}}

----------------------------------------------------------------------------
(* C18 *)

\* The three cases as the header words them, on the timestamp itself: below
\* mtime_ts + 2^lifetime_log2, up to IPCOOKIE_T_RECOVER more, and above.
check_entry_timestamp_untruncated(ce, t) ==
    LET lt == ipcookie_entry_lifetime_log2(ce) IN
    IF lt = IPCOOKIE_LIFETIME_LOG2_INFINITE THEN IPCOOKIE_TS_STILL_VALID
    ELSE IF t < ce.mtime_ts + 2^lt THEN IPCOOKIE_TS_STILL_VALID
    ELSE IF t < ce.mtime_ts + 2^lt + IPCOOKIE_T_RECOVER THEN IPCOOKIE_TS_RENEW_TIME
    ELSE IPCOOKIE_TS_PAST_RENEW_TIME

\* C18 as stated: at every time an entry can be consulted by a send, the case
\* computed from the 24 bits of mtime that are stored, modulo 2^24, is the case
\* computed from the timestamps themselves, a backdated mtime below zero
\* included. Refuted: a send 2^24 seconds or more after mtime sees the age
\* modulo 2^24.
C18_TruncatedClassificationExact ==
    \A ce \in Entries(cache) :
        check_ipcookie_entry_timestamp(ce, now) =
            check_entry_timestamp_untruncated(ce, now)

----------------------------------------------------------------------------
(* C17 *)

\* C17: a verification that ran while at most one rotation of the secrets
\* was under way, whatever the order of its two reads and the two writes of
\* the rotation, does not return Invalid for the cookie under the secret that
\* was CURRENT when it, and so the rotation, began.
C17_VerifierToleratesOneRotation ==
    \A i \in 1..Len(proc.verifier) :
        LET v == proc.verifier[i] IN
        (/\ v.pc = "done"
         /\ v.overlap <= 1
         /\ v.received = cookie_of(v.p, v.began)) => v.result # "invalid"

\* A verification has read CURRENT after the second write of the one
\* rotation it overlapped, and has found the cookie under PREVIOUS.
C17_Witness ==
    /\ proc.verifier # <<>>
    /\ proc.verifier[1].pc = "done"
    /\ proc.verifier[1].overlap = 1
    /\ proc.verifier[1].received = cookie_of(proc.verifier[1].p, proc.verifier[1].began)
    /\ proc.verifier[1].result = "valid_previous"
    /\ state.previous = proc.verifier[1].began
    /\ state.current # proc.verifier[1].began

----------------------------------------------------------------------------
(* C14 *)

\* C14 as stated: whatever the interleaving of the sends of several shim
\* instances and the daemon's handling of control messages, the cache never
\* holds two entries for the same peer. Refuted: two instances that both
\* find no entry at their lookup both allocate one.
C14_OneEntryPerPeer ==
    \A i, j \in 1..Len(cache) : cache[i].peer = cache[j].peer => i = j

----------------------------------------------------------------------------
(* C19 *)

\* The calls of a transition, made one after the other with nothing in
\* between, are the transition.
CallsAreTheTransitions ==
    \A ce \in Entries(cache) :
        /\ entry_calls(ce, send_entry_exists_calls(ce, now), now)
               = send_entry_exists(ce, now)
        /\ \A requested \in PeerCookies, lt \in LtLog2Values :
               entry_calls(ce, daemon_setcookie_entry_calls(ce, ce.ipcookie,
                                                            requested, lt), now)
                   = daemon_setcookie_entry(ce, ce.ipcookie, requested, lt, now)

\* The entry after the send and then the SET-COOKIE, and after the SET-COOKIE
\* and then the send, from the entry the race began with.
SerialOrders ==
    LET race == proc.race[1]
        m == race.daemon[1]
    IN  {daemon_setcookie_entry(send_entry_exists(race.entry, now),
                                m.echoed_cookie, m.requested_cookie, m.lt_log2, now),
         send_entry_exists(
             daemon_setcookie_entry(race.entry, m.echoed_cookie,
                                    m.requested_cookie, m.lt_log2, now), now)}

\* C19 as stated: when a send-path transition and the installation of a
\* matching SET-COOKIE have both worked on an entry, in whatever
\* interleaving, the entry is what one of the two serial orders leaves.
\* Refuted: the shim decides on the entry it read, and its writes land on
\* the entry the daemon has written since.
C19_InterleavingIsSerializable ==
    RaceOver => cache_entry(cache, 1) \in SerialOrders

----------------------------------------------------------------------------
(* C20 *)

ActiveExpecting == \E ce \in Entries(cache) : ~Disabled(ce) /\ Expecting(ce)

FallenBack ==
    \E ce \in Entries(cache) :
        Disabled(ce) /\ Lifetime(ce) = IPCOOKIE_FALLBACK_LT2

CookiesTriedAgain == \E ce \in Entries(cache) : ~Disabled(ce)

\* C20 as stated: with a peer that never answers and a shim that keeps
\* sending as time advances, an entry that is active and expecting a
\* SET-COOKIE eventually falls back, and an entry in fallback eventually has
\* DISABLE_COOKIES cleared again. Refuted: sends that come a whole turn of the
\* 24-bit clock apart all find the entry at the same age.
C20_FallbackAndRecoveryEventually ==
    /\ ActiveExpecting ~> FallenBack
    /\ FallenBack ~> CookiesTriedAgain

\* What holds: as long as the shim sends between any two advances of the
\* clock, each of them 2^24 - 2^8 seconds at most, the entry does fall back
\* and does leave the fallback.
FallbackAndRecoveryOfRegularSender ==
    /\ (ActiveExpecting /\ ~proc.silent) ~> (FallenBack \/ proc.silent)
    /\ (FallenBack /\ ~proc.silent) ~> (CookiesTriedAgain \/ proc.silent)

====
